---- MODULE Spec2Model ----
(***************************************************************************)
(* Model of app.py: the PDF <-> image converter.                           *)
(*                                                                         *)
(* pdf_to_images and images_to_pdf are modelled as operators that compute  *)
(* what the Python functions compute (return value, local lists, emitted   *)
(* st.* messages, state of the document handle).  One action per entry     *)
(* point: the two Streamlit button handlers and a direct call of each      *)
(* function.  The state is the record of the last completed call.          *)
(*                                                                         *)
(* Strings that the code compares or builds (file names) are sequences of  *)
(* code points, so that Python's string ordering and f-string formatting   *)
(* are computed rather than assumed.                                       *)
(***************************************************************************)
EXTENDS Integers, Sequences, FiniteSets, TLC

\* ---------------------------------------------------------------- bounds
MaxPages == 3
MaxFiles == 3

\* ------------------------------------------------------- string helpers
\* "page_"
StrPage == <<112, 97, 103, 101, 95>>
\* ".png"
ExtPng == <<46, 112, 110, 103>>
\* ".jpg"
ExtJpg == <<46, 106, 112, 103>>
\* "a.png", "b.png": names of uploaded files
NameA == <<97>> \o ExtPng
NameB == <<98>> \o ExtPng

\* str(n) for n >= 0: decimal digits as code points
RECURSIVE Digits(_)
Digits(n) == IF n < 10 THEN <<48 + n>>
             ELSE Digits(n \div 10) \o <<48 + (n % 10)>>

\* variant: the file name carries the 0-based loop index
PageFilename_ZeroBased(page_num, ext) == StrPage \o Digits(page_num) \o ext

\* f"page_{page_num + 1}.png" / f"page_{page_num + 1}.jpg"
PageFilename(page_num, ext) == StrPage \o Digits(page_num + 1) \o ext

\* Python's str <: code-point lexicographic, a proper prefix is smaller
RECURSIVE StrLess(_, _)
StrLess(a, b) ==
    IF b = <<>> THEN FALSE
    ELSE IF a = <<>> THEN TRUE
    ELSE IF Head(a) < Head(b) THEN TRUE
    ELSE IF Head(a) > Head(b) THEN FALSE
    ELSE StrLess(Tail(a), Tail(b))

\* str.lower() on the format strings the model passes
FormatLower(f) == CASE f = "PNG" -> "png"
                    [] f = "JPG" -> "jpg"
                    [] OTHER -> f

\* ------------------------------------------------------------ messages
Msg(level, text, arg) == [level |-> level, text |-> text, arg |-> arg]

\* ---------------------------------------------------------- value None
\* A Python return value: None, or a list (of (filename, bytes) pairs, or
\* the pages of the PDF byte stream).
PyNone == [none |-> TRUE, val |-> <<>>]
PyVal(v) == [none |-> FALSE, val |-> v]
\* truthiness as used by "if image_data:" / "if pdf_bytes:"
Truthy(r) == ~r.none /\ r.val # <<>>

\* ------------------------------------------------------------ PDF input
\* pdf_bytes is either not parseable, or a document whose pages are drawn
\* from PageContents; rendering the page "X" raises inside the library.
PageContents == {"A", "B", "X"}
RECURSIVE SeqsUpTo(_, _)
SeqsUpTo(S, n) ==
    IF n = 0 THEN {<<>>}
    ELSE LET shorter == SeqsUpTo(S, n - 1)
         IN shorter \cup {Append(s, x) : s \in {t \in shorter : Len(t) = n - 1}, x \in S}
NotPdf == [parseable |-> FALSE, pages |-> <<>>]
PdfInputs == {NotPdf} \cup {[parseable |-> TRUE, pages |-> p] : p \in SeqsUpTo(PageContents, MaxPages)}
Formats == {"png", "jpg", "PNG", "JPG", "bmp"}
RadioFormats == {"PNG", "JPG"}
DpiValues == {72, 200}

\* bytes of an encoded image (or of something that is not an image)
ImageBytes(codec, mode, pdf_ok, pixels, dpi_) ==
    [kind |-> "image", codec |-> codec, mode |-> mode, pdf_ok |-> pdf_ok,
     pixels |-> pixels, dpi |-> dpi_]
Garbage == [kind |-> "garbage", codec |-> "", mode |-> "", pdf_ok |-> FALSE,
            pixels |-> "", dpi |-> 0]

\* page.get_pixmap(matrix=zoom_matrix) then Image.frombytes("RGB", ...)
RenderPage(page, dpi_) == [mode |-> "RGB", pixels |-> page, dpi |-> dpi_]
\* img.save(..., format="PNG")
SavePng(img) == ImageBytes("PNG", img.mode, TRUE, img.pixels, img.dpi)
\* the jpg branch: drop alpha if any, then img.save(..., format="JPEG", quality=95)
SaveJpeg(img) ==
    LET rgb == IF img.mode = "RGBA" THEN [img EXCEPT !.mode = "RGB"] ELSE img
    IN ImageBytes("JPEG", rgb.mode, TRUE, rgb.pixels, rgb.dpi)

\* result of one call of pdf_to_images
RasterResult(ret_, images_, handle_, msgs_, failure_) ==
    [ret |-> ret_, images |-> images_, handle |-> handle_, msgs |-> msgs_,
     failure |-> failure_]

\* variant: the except clause hands back the pairs collected so far
RasterExcept_Partial(images_, handle_, failure_) ==
    RasterResult(PyVal(images_), images_, handle_,
                 <<Msg("error", "pdf_error", <<>>)>>, failure_)

\* variant: the except clause swallows the exception without a message
RasterExcept_Silent(images_, handle_, failure_) ==
    RasterResult(PyNone, images_, handle_, <<>>, failure_)

\* the except clause of pdf_to_images
RasterExcept(images_, handle_, failure_) ==
    RasterResult(PyNone, images_, handle_,
                 <<Msg("error", "pdf_error", <<>>)>>, failure_)

\* the for loop of pdf_to_images from iteration page_num on, and what follows it
RECURSIVE RasterLoop(_, _, _, _, _)
RasterLoop(pages, output_format_, dpi_, page_num, images_) ==
    IF page_num >= Len(pages)
    THEN \* pdf_doc.close(); return images
         RasterResult(PyVal(images_), images_, "closed", <<>>, "none")
    ELSE IF pages[page_num + 1] = "X"
    THEN \* load_page / get_pixmap raises
         RasterExcept(images_, "open", "render")
    ELSE LET img == RenderPage(pages[page_num + 1], dpi_)
         IN IF FormatLower(output_format_) = "png"
            THEN RasterLoop(pages, output_format_, dpi_, page_num + 1,
                     Append(images_, <<PageFilename(page_num, ExtPng), SavePng(img)>>))
            ELSE IF FormatLower(output_format_) = "jpg"
            THEN RasterLoop(pages, output_format_, dpi_, page_num + 1,
                     Append(images_, <<PageFilename(page_num, ExtJpg), SaveJpeg(img)>>))
            ELSE \* st.error(unsupported format); return None
                 RasterResult(PyNone, images_, "open",
                              <<Msg("error", "unsupported_format", <<>>)>>, "format")

pdf_to_images(pdf_bytes_, output_format_, dpi_) ==
    IF ~pdf_bytes_.parseable
    THEN \* fitz.open raises: no handle was obtained
         RasterExcept(<<>>, "none", "open")
    ELSE RasterLoop(pdf_bytes_.pages, output_format_, dpi_, 0, <<>>)

\* ---------------------------------------------------------- image input
\* an uploaded file: a name and its bytes
UploadedFile(name, data) == [name |-> name, data |-> data]
ImageModes == {"RGB", "RGBA", "P", "L", "LA"}
\* bytes the user can upload: images of every mode the PDF writer accepts,
\* an RGB image on which the PDF writer raises, and bytes that are no image
UploadData ==
    {ImageBytes("PNG", m, TRUE, "u", 0) : m \in ImageModes}
    \cup {ImageBytes("PNG", "RGB", FALSE, "u", 0), Garbage}
UploadNames == {NameA, NameB}
Uploads == {UploadedFile(n, d) : n \in UploadNames, d \in UploadData}

\* uploaded_images.sort(key=lambda f: f.name): a stable sort
InsertByName(f, sorted) ==
    LET k == Cardinality({i \in 1..Len(sorted) : ~StrLess(f.name, sorted[i].name)})
    IN SubSeq(sorted, 1, k) \o <<f>> \o SubSeq(sorted, k + 1, Len(sorted))
\* variant: the handler passes the files on in upload order
SortByName_Unsorted(files) == files

RECURSIVE SortByName(_)
SortByName(files) ==
    IF files = <<>> THEN <<>>
    ELSE InsertByName(files[Len(files)], SortByName(SubSeq(files, 1, Len(files) - 1)))

\* Image.open(uploaded_file) raises on bytes that are no image
OpenRaises(uploaded_file) == uploaded_file.data.kind # "image"
\* Image.open(uploaded_file); src records which upload the image came from
OpenImage(uploaded_file) ==
    [src |-> uploaded_file.name, mode |-> uploaded_file.data.mode,
     pdf_ok |-> uploaded_file.data.pdf_ok, pixels |-> uploaded_file.data.pixels]
\* the if/elif chain that converts to RGB
ConvertMode(img) ==
    IF img.mode = "RGBA" THEN [img EXCEPT !.mode = "RGB"]
    ELSE IF img.mode = "P" THEN [img EXCEPT !.mode = "RGB"]
    ELSE IF img.mode = "L" THEN [img EXCEPT !.mode = "RGB"]
    ELSE img

\* variant: the loop gives up at the first file that cannot be read
RECURSIVE DecodeLoop_Abort(_, _, _, _, _)
DecodeLoop_Abort(image_files_, i, pil_images_, msgs_, opened_) ==
    IF i > Len(image_files_)
    THEN [pil_images |-> pil_images_, msgs |-> msgs_, opened |-> opened_]
    ELSE IF OpenRaises(image_files_[i])
    THEN [pil_images |-> <<>>,
          msgs |-> Append(msgs_, Msg("error", "cannot_read", image_files_[i].name)),
          opened |-> opened_ + 1]
    ELSE DecodeLoop_Abort(image_files_, i + 1,
                          Append(pil_images_, ConvertMode(OpenImage(image_files_[i]))),
                          msgs_, opened_ + 1)

\* the for loop of images_to_pdf over image_files[i..]
RECURSIVE DecodeLoop(_, _, _, _, _)
DecodeLoop(image_files_, i, pil_images_, msgs_, opened_) ==
    IF i > Len(image_files_)
    THEN [pil_images |-> pil_images_, msgs |-> msgs_, opened |-> opened_]
    ELSE IF OpenRaises(image_files_[i])
    THEN \* inner except: report the file and go on
         DecodeLoop(image_files_, i + 1, pil_images_,
                    Append(msgs_, Msg("error", "cannot_read", image_files_[i].name)),
                    opened_ + 1)
    ELSE DecodeLoop(image_files_, i + 1,
                    Append(pil_images_, ConvertMode(OpenImage(image_files_[i]))),
                    msgs_, opened_ + 1)

\* pil_images[0].save(pdf_buffer, "PDF", ...) raises
SaveRaises(pil_images_) == \E i \in 1..Len(pil_images_) : ~pil_images_[i].pdf_ok
\* one page of the PDF written by save(..., resolution=100.0, ...)
PdfPage(img) == [src |-> img.src, mode |-> img.mode, pixels |-> img.pixels, resolution |-> 100]
\* variant: save without save_all / append_images writes the first image only
SavePdf_FirstOnly(pil_images_) == <<PdfPage(pil_images_[1])>>

\* pil_images[0].save(..., save_all=True, append_images=pil_images[1:])
SavePdf(pil_images_) ==
    <<PdfPage(pil_images_[1])>> \o [i \in 1..(Len(pil_images_) - 1) |-> PdfPage(pil_images_[i + 1])]

\* result of one call of images_to_pdf
MergeResult(ret_, pil_images_, msgs_, failure_, opened_, save_called_) ==
    [ret |-> ret_, pil_images |-> pil_images_, msgs |-> msgs_, failure |-> failure_,
     opened |-> opened_, save_called |-> save_called_]

\* variant: no check for an empty list at the start
images_to_pdf_NoEmptyCheck(image_files_) ==
    LET d == DecodeLoop(image_files_, 1, <<>>, <<>>, 0)
    IN IF d.pil_images = <<>>
       THEN MergeResult(PyNone, d.pil_images,
                        Append(d.msgs, Msg("error", "no_valid_images", <<>>)),
                        "no_valid_images", d.opened, FALSE)
       ELSE IF SaveRaises(d.pil_images)
       THEN MergeResult(PyNone, d.pil_images,
                        Append(d.msgs, Msg("error", "merge_error", <<>>)),
                        "serialize", d.opened, TRUE)
       ELSE MergeResult(PyVal(SavePdf(d.pil_images)), d.pil_images, d.msgs,
                        "none", d.opened, TRUE)

images_to_pdf(image_files_) ==
    IF image_files_ = <<>>
    THEN MergeResult(PyNone, <<>>, <<Msg("warning", "need_image", <<>>)>>, "empty", 0, FALSE)
    ELSE LET d == DecodeLoop(image_files_, 1, <<>>, <<>>, 0)
         IN IF d.pil_images = <<>>
            THEN MergeResult(PyNone, d.pil_images,
                             Append(d.msgs, Msg("error", "no_valid_images", <<>>)),
                             "no_valid_images", d.opened, FALSE)
            ELSE IF SaveRaises(d.pil_images)
            THEN MergeResult(PyNone, d.pil_images,
                             Append(d.msgs, Msg("error", "merge_error", <<>>)),
                             "serialize", d.opened, TRUE)
            ELSE MergeResult(PyVal(SavePdf(d.pil_images)), d.pil_images, d.msgs,
                             "none", d.opened, TRUE)

\* ------------------------------------------------------------- state
VARIABLES
    pc,            \* "idle": the script waits for a click, "done": a call has returned
    caller,        \* "tab1", "tab2" (the button handlers), "direct", or "none"
    op,            \* the function that was called: "pdf_to_images", "images_to_pdf", "none"
    pdf_bytes,     \* arguments of pdf_to_images
    output_format,
    dpi,
    uploaded,      \* the image files as supplied by the caller
    image_files,   \* the argument of images_to_pdf
    roundtrip,     \* the image files are the output of the pdf_to_images call in pdf_bytes
    ret,           \* the value the function returned
    images,        \* pdf_to_images: the local list images when the call ended
    handle,        \* pdf_doc: "none" (never opened), "open", "closed"
    pil_images,    \* images_to_pdf: the local list pil_images when the call ended
    opened,        \* images_to_pdf: number of Image.open calls
    save_called,   \* images_to_pdf: the PDF save was started
    fn_msgs,       \* st.error / st.warning emitted inside the function
    ui_msgs,       \* messages emitted by the button handler
    failure,       \* why the function returned None: "none" if it did not
    download,      \* what the handler offers for download
    prev_failed    \* op, failure and return value of the latest earlier call that failed

vars == <<pc, caller, op, pdf_bytes, output_format, dpi, uploaded, image_files,
          roundtrip, ret, images, handle, pil_images, opened, save_called,
          fn_msgs, ui_msgs, failure, download, prev_failed>>

NoFailed == [op |-> "none", failure |-> "none", ret |-> PyNone]

\* the part of the state that belongs to a pdf_to_images call, when there is none
NoRaster ==
    /\ pdf_bytes' = NotPdf
    /\ output_format' = "png"
    /\ dpi' = 72
    /\ images' = <<>>
    /\ handle' = "none"

\* the part of the state that belongs to an images_to_pdf call, when there is none
NoMerge ==
    /\ uploaded' = <<>>
    /\ image_files' = <<>>
    /\ roundtrip' = FALSE
    /\ pil_images' = <<>>
    /\ opened' = 0
    /\ save_called' = FALSE

Init ==
    /\ pc = "idle"
    /\ caller = "none"
    /\ op = "none"
    /\ pdf_bytes = NotPdf
    /\ output_format = "png"
    /\ dpi = 72
    /\ uploaded = <<>>
    /\ image_files = <<>>
    /\ roundtrip = FALSE
    /\ ret = PyNone
    /\ images = <<>>
    /\ handle = "none"
    /\ pil_images = <<>>
    /\ opened = 0
    /\ save_called = FALSE
    /\ fn_msgs = <<>>
    /\ ui_msgs = <<>>
    /\ failure = "none"
    /\ download = PyNone
    /\ prev_failed = NoFailed

\* ------------------------------------------------- PDF -> images entries
\* state after pdf_to_images(pdf, fmt, d) returned r
RasterReturned(pdf, fmt, d, r) ==
    /\ pc' = "done"
    /\ op' = "pdf_to_images"
    /\ pdf_bytes' = pdf
    /\ output_format' = fmt
    /\ dpi' = d
    /\ ret' = r.ret
    /\ images' = r.images
    /\ handle' = r.handle
    /\ fn_msgs' = r.msgs
    /\ failure' = r.failure
    /\ NoMerge
    /\ UNCHANGED prev_failed

\* Tab 1, "convert_pdf" pressed with a file uploaded
Tab1ConvertPdf ==
    /\ pc = "idle"
    /\ \E pdf \in PdfInputs, radio \in RadioFormats, d \in DpiValues :
         LET r == pdf_to_images(pdf, FormatLower(radio), d)
         IN /\ RasterReturned(pdf, FormatLower(radio), d, r)
            /\ caller' = "tab1"
            /\ IF Truthy(r.ret)
               THEN /\ ui_msgs' = <<Msg("success", "converted", <<>>)>>
                    /\ download' = r.ret
               ELSE /\ ui_msgs' = <<Msg("error", "convert_failed", <<>>)>>
                    /\ download' = PyNone

\* Tab 1, "convert_pdf" pressed without a file
Tab1NoFile ==
    /\ pc = "idle"
    /\ pc' = "done"
    /\ caller' = "tab1"
    /\ op' = "none"
    /\ ret' = PyNone
    /\ fn_msgs' = <<>>
    /\ ui_msgs' = <<Msg("warning", "upload_pdf_first", <<>>)>>
    /\ failure' = "none"
    /\ download' = PyNone
    /\ NoRaster
    /\ NoMerge
    /\ UNCHANGED prev_failed

\* pdf_to_images called with any format string
PdfToImagesCall ==
    /\ pc = "idle"
    /\ \E pdf \in PdfInputs, fmt \in Formats, d \in DpiValues :
         /\ RasterReturned(pdf, fmt, d, pdf_to_images(pdf, fmt, d))
         /\ caller' = "direct"
         /\ ui_msgs' = <<>>
         /\ download' = PyNone

\* ------------------------------------------------- images -> PDF entries
\* state after images_to_pdf(files) returned m
MergeReturned(files, m) ==
    /\ pc' = "done"
    /\ op' = "images_to_pdf"
    /\ image_files' = files
    /\ ret' = m.ret
    /\ pil_images' = m.pil_images
    /\ opened' = m.opened
    /\ save_called' = m.save_called
    /\ fn_msgs' = m.msgs
    /\ failure' = m.failure

\* Tab 2, "convert_images" pressed with the files ups uploaded
Tab2Handler(ups) ==
    /\ caller' = "tab2"
    /\ uploaded' = ups
    /\ IF ups # <<>>
       THEN LET sorted == SortByName(ups)
                m == images_to_pdf(sorted)
            IN /\ MergeReturned(sorted, m)
               /\ IF Truthy(m.ret)
                  THEN /\ ui_msgs' = <<Msg("info", "preparing", <<>>),
                                       Msg("success", "merged", <<>>)>>
                       /\ download' = m.ret
                  ELSE /\ ui_msgs' = <<Msg("info", "preparing", <<>>),
                                       Msg("error", "merge_failed", <<>>)>>
                       /\ download' = PyNone
       ELSE /\ pc' = "done"
            /\ op' = "none"
            /\ image_files' = <<>>
            /\ ret' = PyNone
            /\ pil_images' = <<>>
            /\ opened' = 0
            /\ save_called' = FALSE
            /\ fn_msgs' = <<>>
            /\ failure' = "none"
            /\ ui_msgs' = <<Msg("warning", "upload_image_first", <<>>)>>
            /\ download' = PyNone

\* images_to_pdf called with the list files
DirectMerge(files) ==
    /\ caller' = "direct"
    /\ uploaded' = files
    /\ MergeReturned(files, images_to_pdf(files))
    /\ ui_msgs' = <<>>
    /\ download' = PyNone

Tab2ConvertImages ==
    /\ pc = "idle"
    /\ \E ups \in SeqsUpTo(Uploads, MaxFiles) \ {<<>>} : Tab2Handler(ups)
    /\ roundtrip' = FALSE
    /\ NoRaster
    /\ UNCHANGED prev_failed

Tab2NoImages ==
    /\ pc = "idle"
    /\ Tab2Handler(<<>>)
    /\ roundtrip' = FALSE
    /\ NoRaster
    /\ UNCHANGED prev_failed

ImagesToPdfCall ==
    /\ pc = "idle"
    /\ \E files \in SeqsUpTo(Uploads, MaxFiles) : DirectMerge(files)
    /\ roundtrip' = FALSE
    /\ NoRaster
    /\ UNCHANGED prev_failed

\* the (filename, bytes) pairs returned by pdf_to_images, given as image files
AsUploads(pairs) == [i \in 1..Len(pairs) |-> UploadedFile(pairs[i][1], pairs[i][2])]

\* the output of the pdf_to_images call that just returned is fed to images_to_pdf
RoundTrip ==
    /\ pc = "done"
    /\ op = "pdf_to_images"
    /\ ~ret.none
    /\ \/ Tab2Handler(AsUploads(ret.val))
       \/ DirectMerge(AsUploads(ret.val))
    /\ roundtrip' = TRUE
    /\ UNCHANGED <<pdf_bytes, output_format, dpi, images, handle, prev_failed>>

\* the script is rerun without a button pressed: the outputs of the last run go
Rerun ==
    /\ pc = "done"
    /\ pc' = "idle"
    /\ prev_failed' = IF failure # "none"
                      THEN [op |-> op, failure |-> failure, ret |-> ret]
                      ELSE prev_failed
    /\ caller' = "none"
    /\ op' = "none"
    /\ ret' = PyNone
    /\ fn_msgs' = <<>>
    /\ ui_msgs' = <<>>
    /\ failure' = "none"
    /\ download' = PyNone
    /\ NoRaster
    /\ NoMerge

Next ==
    \/ Tab1ConvertPdf
    \/ Tab1NoFile
    \/ PdfToImagesCall
    \/ Tab2ConvertImages
    \/ Tab2NoImages
    \/ ImagesToPdfCall
    \/ RoundTrip
    \/ Rerun

Spec == Init /\ [][Next]_vars

\* ============================================================== claims
RasterDone == pc = "done" /\ op = "pdf_to_images"
MergeDone == pc = "done" /\ op = "images_to_pdf"
Supported == {"png", "jpg"}
ExtOf(fmt) == IF FormatLower(fmt) = "png" THEN ExtPng ELSE ExtJpg
CodecOf(fmt) == IF FormatLower(fmt) = "png" THEN "PNG" ELSE "JPEG"
\* an input that Image.open and the mode conversion accept
Decodable(f) == f.data.kind = "image"
Count(s, P(_)) == Cardinality({i \in 1..Len(s) : P(s[i])})

\* C1: a successful pdf_to_images call on a document of N pages in a supported
\* format returns exactly N pairs, the i-th named page_i.<format> and holding
\* the rendering of the i-th page.
C1_PagesInOrder ==
    (RasterDone /\ ~ret.none /\ FormatLower(output_format) \in Supported) =>
        /\ Len(ret.val) = Len(pdf_bytes.pages)
        /\ \A i \in 1..Len(ret.val) :
              /\ ret.val[i][1] = StrPage \o Digits(i) \o ExtOf(output_format)
              /\ ret.val[i][2].kind = "image"
              /\ ret.val[i][2].codec = CodecOf(output_format)
              /\ ret.val[i][2].pixels = pdf_bytes.pages[i]
              /\ ret.val[i][2].dpi = dpi

C1_Witness ==
    /\ RasterDone
    /\ ~ret.none
    /\ output_format = "jpg"
    /\ Len(pdf_bytes.pages) = 3
    /\ pdf_bytes.pages[1] # pdf_bytes.pages[2]
    /\ ret.val[3][1] = StrPage \o <<51>> \o ExtJpg

\* C2: pdf_to_images is all-or-nothing: when the document does not open or a
\* page fails, also after earlier pages were appended to the local list, the
\* call returns no pairs at all and the Tab 1 handler offers nothing.
C2_AllOrNothing ==
    (RasterDone /\ (~pdf_bytes.parseable
                    \/ \E k \in 1..Len(pdf_bytes.pages) : pdf_bytes.pages[k] = "X")) =>
        /\ ret = PyNone
        /\ failure # "none"
        /\ download = PyNone
        /\ \A i \in 1..Len(ui_msgs) : ui_msgs[i].level # "success"

C2_Witness ==
    /\ RasterDone
    /\ caller = "tab1"
    /\ failure = "render"
    /\ Len(images) = 2
    /\ ret = PyNone
    /\ download = PyNone

\* C3: pdf_to_images called on a document that opens, with a format other than
\* png and jpg, ends in the unsupported-format failure, never in a success.
C3_UnsupportedFormatFails ==
    (RasterDone /\ pdf_bytes.parseable /\ FormatLower(output_format) \notin Supported) =>
        /\ ret.none
        /\ failure = "format"

C5_SucceedsIffDecodable ==
    (MergeDone /\ image_files # <<>>) =>
        /\ Count(fn_msgs, LAMBDA m : m.text = "cannot_read")
             = Count(image_files, LAMBDA f : ~Decodable(f))
        /\ ~ret.none <=> (\E i \in 1..Len(image_files) : Decodable(image_files[i]))
        /\ failure = "no_valid_images"
             <=> (\A i \in 1..Len(image_files) : ~Decodable(image_files[i]))

\* C5 amended: an undecodable input is skipped with one diagnostic and the
\* loop goes on; a call on a non-empty list succeeds if and only if some input
\* is decodable and the PDF save does not raise; the PDF then has one page per
\* decodable input in their order; the call fails with "no valid images"
\* exactly when every input is undecodable.
C5_SkipUndecodable ==
    (MergeDone /\ image_files # <<>>) =>
        LET dec == SelectSeq(image_files, Decodable)
        IN /\ opened = Len(image_files)
           /\ Count(fn_msgs, LAMBDA m : m.text = "cannot_read")
                = Len(image_files) - Len(dec)
           /\ \A i \in 1..Len(image_files) :
                 ~Decodable(image_files[i]) =>
                    Count(fn_msgs, LAMBDA m : m.text = "cannot_read"
                                              /\ m.arg = image_files[i].name)
                      = Count(image_files, LAMBDA f : ~Decodable(f)
                                              /\ f.name = image_files[i].name)
           /\ ~ret.none <=> (dec # <<>> /\ failure # "serialize")
           /\ ~ret.none =>
                 /\ Len(ret.val) = Len(dec)
                 /\ \A i \in 1..Len(dec) :
                       /\ ret.val[i].src = dec[i].name
                       /\ ret.val[i].pixels = dec[i].data.pixels
           /\ failure = "no_valid_images" <=> dec = <<>>
           /\ failure = "serialize" => dec # <<>>

C5_Witness ==
    /\ MergeDone
    /\ Len(image_files) = 3
    /\ Decodable(image_files[1])
    /\ ~Decodable(image_files[2])
    /\ Decodable(image_files[3])
    /\ Count(fn_msgs, LAMBDA m : m.text = "cannot_read") = 1
    /\ ~ret.none
    /\ Len(ret.val) = 2

\* C6: every image handed to the PDF save is in mode RGB.
C6_SavedImagesAreRgb ==
    (MergeDone /\ save_called) =>
        \A i \in 1..Len(pil_images) : pil_images[i].mode = "RGB"

\* C7 as stated: the returned value alone tells two different failures of the
\* same function apart.
C7_ReturnTellsFailuresApart ==
    (pc = "done" /\ failure # "none" /\ prev_failed.op = op
       /\ prev_failed.failure # failure) =>
        prev_failed.ret # ret

\* the diagnostic each failure ends with
FailureMsg(f) ==
    CASE f = "open" -> Msg("error", "pdf_error", <<>>)
      [] f = "render" -> Msg("error", "pdf_error", <<>>)
      [] f = "format" -> Msg("error", "unsupported_format", <<>>)
      [] f = "empty" -> Msg("warning", "need_image", <<>>)
      [] f = "no_valid_images" -> Msg("error", "no_valid_images", <<>>)
      [] f = "serialize" -> Msg("error", "merge_error", <<>>)

\* C7 amended: every failure of either function is returned as None, and the
\* last message the function emitted names the failure: unsupported format,
\* PDF processing error (document-open and page-render errors share it), empty
\* input, no valid images, or merge error; a call that did not fail returns a
\* value and ends with no such message.
C7_FailureIsNonePlusMessage ==
    (pc = "done" /\ op # "none") =>
        /\ failure # "none" =>
              /\ ret = PyNone
              /\ fn_msgs # <<>>
              /\ fn_msgs[Len(fn_msgs)] = FailureMsg(failure)
        /\ failure = "none" =>
              /\ ~ret.none
              /\ \A i \in 1..Len(fn_msgs) : fn_msgs[i].text = "cannot_read"
        /\ failure \in (IF op = "pdf_to_images"
                        THEN {"none", "open", "render", "format"}
                        ELSE {"none", "empty", "no_valid_images", "serialize"})

C7_Witness ==
    /\ RasterDone
    /\ failure = "format"
    /\ prev_failed.op = "pdf_to_images"
    /\ prev_failed.failure = "render"
    /\ ret = prev_failed.ret

\* C8 as stated: feeding the png output of a successful pdf_to_images call to
\* images_to_pdf succeeds and gives a PDF with as many pages as the document.
C8_RoundTripPageCount ==
    (pc = "done" /\ roundtrip /\ FormatLower(output_format) = "png") =>
        /\ op = "images_to_pdf"
        /\ ~ret.none
        /\ Len(ret.val) = Len(pdf_bytes.pages)

\* C8 amended: the same for every document with at least one page.
C8_RoundTripPageCountNonEmpty ==
    (pc = "done" /\ roundtrip /\ FormatLower(output_format) = "png"
       /\ Len(pdf_bytes.pages) >= 1) =>
        /\ op = "images_to_pdf"
        /\ ~ret.none
        /\ Len(ret.val) = Len(pdf_bytes.pages)
        /\ \A i \in 1..Len(ret.val) : ret.val[i].pixels \in {"A", "B"}

C8_Witness ==
    /\ pc = "done"
    /\ roundtrip
    /\ output_format = "png"
    /\ dpi = 200
    /\ Len(pdf_bytes.pages) = 3
    /\ MergeDone
    /\ Len(ret.val) = 3

\* C9: images_to_pdf on an empty list, and the Tab 2 handler without files,
\* end with a warning and nothing else: no PDF, no exception, no image opened,
\* no save.
C9_EmptyInputWarns ==
    (pc = "done" /\ ((op = "images_to_pdf" /\ image_files = <<>>)
                     \/ (caller = "tab2" /\ uploaded = <<>>))) =>
        /\ ret = PyNone
        /\ download = PyNone
        /\ opened = 0
        /\ ~save_called
        /\ pil_images = <<>>
        /\ failure \in {"empty", "none"}
        /\ Len(fn_msgs) + Len(ui_msgs) = 1
        /\ \A i \in 1..Len(fn_msgs) : fn_msgs[i].level = "warning"
        /\ \A i \in 1..Len(ui_msgs) : ui_msgs[i].level = "warning"

C9_Witness ==
    /\ MergeDone
    /\ image_files = <<>>
    /\ failure = "empty"
    /\ fn_msgs = <<Msg("warning", "need_image", <<>>)>>
    /\ ret = PyNone

\* C10: when pdf_to_images has returned, a document handle it opened is closed.
C10_HandleReleased ==
    RasterDone => handle # "open"

====
